---- MODULE Spec2Model ----
(***************************************************************************)
(* Model of rag/tools/search_tools.py: the engine selector and the filter  *)
(* compiler behind select_and_compile.                                     *)
(*                                                                         *)
(* A Python str is a sequence of characters.  Every character is a TLA+    *)
(* string: an ASCII character stands for itself, a Hangul syllable is      *)
(* written h_<romanisation> (h_dam h_dang h_ja = U+B2F4 U+B2F9 U+C790),    *)
(* and fw_colon = U+FF1A, tilde_op = U+223C, en_dash = U+2013,             *)
(* em_dash = U+2014.                                                       *)
(***************************************************************************)
EXTENDS Integers, Sequences, FiniteSets, TLC

VARIABLES registry, user_query, result, error, pc

vars == <<registry, user_query, result, error, pc>>

(***************************************************************************)
(* Characters and the character classes of Python's re on str patterns.    *)
(***************************************************************************)
Digits == {"0", "1", "2", "3", "4", "5", "6", "7", "8", "9"}

Upper == {"A", "B", "C", "D", "E", "F", "G", "H", "I", "J", "K", "L", "M",
          "N", "O", "P", "Q", "R", "S", "T", "U", "V", "W", "X", "Y", "Z"}

Lower == {"a", "b", "c", "d", "e", "f", "g", "h", "i", "j", "k", "l", "m",
          "n", "o", "p", "q", "r", "s", "t", "u", "v", "w", "x", "y", "z"}

Hangul == {"h_bang", "h_beo", "h_beul", "h_bo", "h_bu", "h_cheo", "h_chi",
           "h_chul", "h_dam", "h_dang", "h_deu", "h_dong", "h_e", "h_eo",
           "h_eol", "h_eop", "h_ga", "h_geo", "h_geom", "h_geu", "h_gil",
           "h_go", "h_gu", "h_hang", "h_hoe", "h_hong", "h_i", "h_il", "h_ja",
           "h_jak", "h_jang", "h_jeom", "h_jeon", "h_jeong", "h_ji", "h_ju", "h_kka",
           "h_mae", "h_mi", "h_mu", "h_mun", "h_myeong", "h_nae", "h_nyeon",
           "h_nyu", "h_o", "h_pa", "h_po", "h_ra", "h_rae", "h_re", "h_reo",
           "h_ri", "h_ryeong", "h_ryu", "h_sa", "h_seo", "h_seol", "h_seong",
           "h_so", "h_syu", "h_teo", "h_teu", "h_teuk", "h_ting", "h_ui",
           "h_wol", "h_yeok"}

\* str.lower() on one character; Hangul, digits and punctuation have no case.
LowerMap ==
    ("A" :> "a") @@ ("B" :> "b") @@ ("C" :> "c") @@ ("D" :> "d") @@
    ("E" :> "e") @@ ("F" :> "f") @@ ("G" :> "g") @@ ("H" :> "h") @@
    ("I" :> "i") @@ ("J" :> "j") @@ ("K" :> "k") @@ ("L" :> "l") @@
    ("M" :> "m") @@ ("N" :> "n") @@ ("O" :> "o") @@ ("P" :> "p") @@
    ("Q" :> "q") @@ ("R" :> "r") @@ ("S" :> "s") @@ ("T" :> "t") @@
    ("U" :> "u") @@ ("V" :> "v") @@ ("W" :> "w") @@ ("X" :> "x") @@
    ("Y" :> "y") @@ ("Z" :> "z")

ToLower(c) == IF c \in Upper THEN LowerMap[c] ELSE c

\* str.lower()
StrLower(s) == [i \in 1..Len(s) |-> ToLower(s[i])]

\* \d
IsDigit(c) == c \in Digits

\* \s (and the characters str.strip() removes)
IsSpace(c) == c = " "

\* \w
IsWordChar(c) == c \in Digits \/ c \in Upper \/ c \in Lower \/ c = "_" \/ c \in Hangul

\* [U+AC00-U+D7A3 A-Za-z0-9_], the owner token class
IsOwnerChar(c) == c \in Hangul \/ c \in Upper \/ c \in Lower \/ c \in Digits \/ c = "_"

\* [U+AC00-U+D7A3 A-Za-z0-9_()\-], the company token class
IsCompanyChar(c) ==
    c \in Hangul \/ c \in Upper \/ c \in Lower \/ c \in Digits \/ c = "_"
        \/ c = "(" \/ c = ")" \/ c = "-"

\* int() of one decimal digit, and its inverse
DigitVal ==
    ("0" :> 0) @@ ("1" :> 1) @@ ("2" :> 2) @@ ("3" :> 3) @@ ("4" :> 4) @@
    ("5" :> 5) @@ ("6" :> 6) @@ ("7" :> 7) @@ ("8" :> 8) @@ ("9" :> 9)

DigitChar == <<"1", "2", "3", "4", "5", "6", "7", "8", "9">>

DigitOf(n) == IF n = 0 THEN "0" ELSE DigitChar[n]

\* str(n) for n >= 0
RECURSIVE IntStr(_)
IntStr(n) == IF n < 10 THEN <<DigitOf(n)>> ELSE IntStr(n \div 10) \o <<DigitOf(n % 10)>>

(***************************************************************************)
(* Regular-expression primitives: positions are 1-based, a match "at i"    *)
(* starts with the character s[i].                                         *)
(***************************************************************************)
IsWordAt(s, i) == i >= 1 /\ i <= Len(s) /\ IsWordChar(s[i])

\* \b between s[i-1] and s[i]
WordBoundary(s, i) == IsWordAt(s, i - 1) # IsWordAt(s, i)

\* a literal at i
LitAt(s, lit, i) ==
    /\ i >= 1
    /\ i + Len(lit) - 1 <= Len(s)
    /\ \A j \in 1..Len(lit) : s[i + j - 1] = lit[j]

\* a literal at i under re.IGNORECASE
LitAtI(s, lit, i) ==
    /\ i >= 1
    /\ i + Len(lit) - 1 <= Len(s)
    /\ \A j \in 1..Len(lit) : ToLower(s[i + j - 1]) = ToLower(lit[j])

\* \s* from i (greedy): the first position at or after i that holds no space
RECURSIVE SkipSpaces(_, _)
SkipSpaces(s, i) == IF i <= Len(s) /\ IsSpace(s[i]) THEN SkipSpaces(s, i + 1) ELSE i

\* \d+ from i (greedy): the first position at or after i that holds no digit
RECURSIVE SkipDigits(_, _)
SkipDigits(s, i) == IF i <= Len(s) /\ IsDigit(s[i]) THEN SkipDigits(s, i + 1) ELSE i

MinOf(S) == CHOOSE i \in S : \A j \in S : i <= j

\* re.search scans from the left: the least of the positions where the
\* pattern matches, 0 when there is none
Leftmost(hits) == IF hits = {} THEN 0 ELSE MinOf(hits)

\* the substring s[i:j] of Python (0-based, half-open) is Slice(s, i+1, j+1)
Slice(s, i, j) == SubSeq(s, i, j - 1)

\* the first position at or after i where lit occurs in s, 0 when none
FindFrom(s, lit, i) == Leftmost({k \in i..(Len(s) - Len(lit) + 1) : LitAt(s, lit, k)})

\* lit in s
Contains(s, lit) == FindFrom(s, lit, 1) # 0

\* str.replace(old, ""), old non-empty: every non-overlapping occurrence, left to right
RECURSIVE RemoveAllFrom(_, _, _)
RemoveAllFrom(s, old, i) ==
    LET k == FindFrom(s, old, i)
    IN  IF k = 0
        THEN Slice(s, i, Len(s) + 1)
        ELSE Slice(s, i, k) \o RemoveAllFrom(s, old, k + Len(old))

(***************************************************************************)
(* Optional[...]: None, or a value.                                        *)
(***************************************************************************)
None == [none |-> TRUE]

Some(v) == [none |-> FALSE, v |-> v]

IsNone(o) == o.none

(***************************************************************************)
(* Filter compiler helpers.                                                *)
(***************************************************************************)
MaxOf(S) == CHOOSE i \in S : \A j \in S : j <= i

\* str.strip()
Strip(s) ==
    LET keep == {i \in 1..Len(s) : ~IsSpace(s[i])}
    IN  IF keep = {} THEN <<>> ELSE SubSeq(s, MinOf(keep), MaxOf(keep))

_clean(s) == Strip(s)

\* mutant: the rule for the years divisible by 400 is missing
IsLeapNoCentury(y) == y % 4 = 0 /\ y % 100 # 0

\* calendar.monthrange(y, m)[1]
IsLeap(y) == y % 4 = 0 /\ (y % 100 # 0 \/ y % 400 = 0)

MonthDays(y, m) ==
    IF m = 2 THEN (IF IsLeap(y) THEN 29 ELSE 28)
    ELSE IF m \in {4, 6, 9, 11} THEN 30 ELSE 31

\* int() of a run of decimal digits
RECURSIVE IntOf(_)
IntOf(ds) ==
    IF ds = <<>> THEN 0
    ELSE 10 * IntOf(SubSeq(ds, 1, Len(ds) - 1)) + DigitVal[ds[Len(ds)]]

\* f"{n:0{w}d}"
RECURSIVE ZeroPad(_, _)
ZeroPad(ds, w) == IF Len(ds) >= w THEN ds ELSE ZeroPad(<<"0">> \o ds, w)

Fmt(n, w) == ZeroPad(IntStr(n), w)

\* f"{y:04d}-{m:02d}-{d:02d}"
IsoOf(y, m, d) == Fmt(y, 4) \o <<"-">> \o Fmt(m, 2) \o <<"-">> \o Fmt(d, 2)

_month_range(y, m) ==
    LET last == MonthDays(y, m)
    IN  <<IsoOf(y, m, 1), IsoOf(y, m, last)>>

CharAt(s, i) == IF i >= 1 /\ i <= Len(s) THEN s[i] ELSE "EOS"

\* (0[1-9]|1[0-2]) on two characters
IsoMonth(a, b) ==
    \/ a = "0" /\ IsDigit(b) /\ b # "0"
    \/ a = "1" /\ b \in {"0", "1", "2"}

\* (0[1-9]|[12]\d|3[01]) on two characters
IsoDay(a, b) ==
    \/ a = "0" /\ IsDigit(b) /\ b # "0"
    \/ a \in {"1", "2"} /\ IsDigit(b)
    \/ a = "3" /\ b \in {"0", "1"}

\* iso_pat = (20\d{2})-(0[1-9]|1[0-2])-(0[1-9]|[12]\d|3[01]) at i
IsoAt(s, i) ==
    /\ i >= 1
    /\ i + 9 <= Len(s)
    /\ s[i] = "2"
    /\ s[i + 1] = "0"
    /\ IsDigit(s[i + 2])
    /\ IsDigit(s[i + 3])
    /\ s[i + 4] = "-"
    /\ IsoMonth(s[i + 5], s[i + 6])
    /\ s[i + 7] = "-"
    /\ IsoDay(s[i + 8], s[i + 9])

\* (?:~|tilde_op|-|en_dash|em_dash|to|h_bu h_teo) at i under re.IGNORECASE:
\* the length matched, 0 when none
ConnectorLen(s, i) ==
    IF CharAt(s, i) \in {"~", "tilde_op", "-", "en_dash", "em_dash"} THEN 1
    ELSE IF LitAtI(s, <<"t", "o">>, i) THEN 2
    ELSE IF LitAtI(s, <<"h_bu", "h_teo">>, i) THEN 2
    ELSE 0

\* rule 1 at i: \b(iso)\b\s*(?:connector)\s*\b(iso)\b(?:\s*(?:h_kka h_ji)?)
\* [at |-> start, second |-> start of the second date, to |-> end (exclusive)],
\* to = 0 when there is no match at i
RangeAt(s, i) ==
    LET a == i + 10
        c == SkipSpaces(s, a)
        n == ConnectorLen(s, c)
        d == SkipSpaces(s, c + n)
        e == d + 10
        f == SkipSpaces(s, e)
        g == IF LitAtI(s, <<"h_kka", "h_ji">>, f) THEN f + 2 ELSE f
    IN  IF /\ IsoAt(s, i)
           /\ WordBoundary(s, i)
           /\ WordBoundary(s, a)
           /\ n > 0
           /\ WordBoundary(s, d)
           /\ IsoAt(s, d)
           /\ WordBoundary(s, e)
        THEN [at |-> i, second |-> d, to |-> g]
        ELSE [at |-> i, second |-> 0, to |-> 0]

\* rule 2 at i: \b iso \b
DayAt(s, i) == IsoAt(s, i) /\ WordBoundary(s, i) /\ WordBoundary(s, i + 10)

\* \s* then the character c, from i: the position after c, 0 when absent
AfterSpacesChar(s, i, c) ==
    LET k == SkipSpaces(s, i)
    IN  IF CharAt(s, k) = c THEN k + 1 ELSE 0

\* (1[0-2]|[1-9]) at i followed by \s* h_wol: the length of the month, 0 when none
MonthLenAt(s, i) ==
    IF /\ CharAt(s, i) = "1"
       /\ CharAt(s, i + 1) \in {"0", "1", "2"}
       /\ AfterSpacesChar(s, i + 2, "h_wol") # 0
    THEN 2
    ELSE IF /\ IsDigit(CharAt(s, i))
            /\ CharAt(s, i) # "0"
            /\ AfterSpacesChar(s, i + 1, "h_wol") # 0
    THEN 1
    ELSE 0

\* (3[01]|[12]\d|[1-9]) at i followed by \s* h_il: the length of the day, 0 when none
DayLenAt(s, i) ==
    IF /\ \/ CharAt(s, i) = "3" /\ CharAt(s, i + 1) \in {"0", "1"}
          \/ CharAt(s, i) \in {"1", "2"} /\ IsDigit(CharAt(s, i + 1))
       /\ AfterSpacesChar(s, i + 2, "h_il") # 0
    THEN 2
    ELSE IF /\ IsDigit(CharAt(s, i))
            /\ CharAt(s, i) # "0"
            /\ AfterSpacesChar(s, i + 1, "h_il") # 0
    THEN 1
    ELSE 0

\* (20\d{2})\s* h_nyeon \s*(1[0-2]|[1-9])\s* h_wol at i:
\* [at |-> start, y, mo |-> the captured groups, to |-> the position after h_wol],
\* to = 0 when no match
YearMonthAt(s, i) ==
    LET b  == AfterSpacesChar(s, i + 4, "h_nyeon")
        c  == SkipSpaces(s, b)
        ml == MonthLenAt(s, c)
    IN  IF /\ CharAt(s, i) = "2"
           /\ CharAt(s, i + 1) = "0"
           /\ IsDigit(CharAt(s, i + 2))
           /\ IsDigit(CharAt(s, i + 3))
           /\ b # 0
           /\ ml # 0
        THEN [at |-> i,
              y  |-> IntOf(Slice(s, i, i + 4)),
              mo |-> IntOf(Slice(s, c, c + ml)),
              to |-> AfterSpacesChar(s, c + ml, "h_wol")]
        ELSE [at |-> i, y |-> 0, mo |-> 0, to |-> 0]

\* rule 3 at i: year-month, then \s*(3[01]|[12]\d|[1-9])\s* h_il
LocalDayAt(s, i) ==
    LET ym == YearMonthAt(s, i)
        e  == SkipSpaces(s, ym.to)
        dl == DayLenAt(s, e)
    IN  IF ym.to # 0 /\ dl # 0
        THEN [at |-> i, y |-> ym.y, mo |-> ym.mo,
              d  |-> IntOf(Slice(s, e, e + dl)),
              to |-> AfterSpacesChar(s, e + dl, "h_il")]
        ELSE [at |-> i, y |-> 0, mo |-> 0, d |-> 0, to |-> 0]

\* the lookahead \s*\d+\s* h_il at i
DayDesignatorAt(s, i) ==
    LET a == SkipSpaces(s, i)
        b == SkipDigits(s, a)
    IN  b > a /\ AfterSpacesChar(s, b, "h_il") # 0

\* rule 4 at i: year-month, then (?!\s*\d+\s* h_il)
LocalMonthAt(s, i) ==
    LET ym == YearMonthAt(s, i)
    IN  IF ym.to # 0 /\ ~DayDesignatorAt(s, ym.to)
        THEN ym
        ELSE [at |-> i, y |-> 0, mo |-> 0, to |-> 0]

\* re.search: the leftmost position of a match, 0 when the rule matches nowhere
SearchRange(s) == Leftmost({i \in 1..Len(s) : RangeAt(s, i).to # 0})

SearchDay(s) == Leftmost({i \in 1..Len(s) : DayAt(s, i)})

SearchLocalDay(s) == Leftmost({i \in 1..Len(s) : LocalDayAt(s, i).to # 0})

SearchLocalMonth(s) == Leftmost({i \in 1..Len(s) : LocalMonthAt(s, i).to # 0})

DateValue(type, start, end, raw) ==
    [type |-> type, start |-> start, end |-> end, raw |-> raw]

\* {"type": "day", "start": iso, "end": iso, "raw": raw}
DayValue(iso, raw) == DateValue("day", iso, iso, raw)

\* s, e = _month_range(y, mo); {"type": "month", "start": s, "end": e, "raw": raw}
MonthValue(se, raw) == DateValue("month", se[1], se[2], raw)

\* rule 1: YYYY-MM-DD ~ YYYY-MM-DD; m is the match at the leftmost position
DetectRange(q) ==
    LET Value(m) ==
            IF m.to = 0 THEN None
            ELSE Some(DateValue("range",
                                Slice(q, m.at, m.at + 10),
                                Slice(q, m.second, m.second + 10),
                                Slice(q, m.at, m.to)))
    IN  Value(RangeAt(q, SearchRange(q)))

\* rule 2: YYYY-MM-DD
DetectDay(q) ==
    LET Value(i) ==
            IF i = 0 THEN None
            ELSE Some(DayValue(Slice(q, i, i + 10), Slice(q, i, i + 10)))
    IN  Value(SearchDay(q))

\* rule 3: YYYY h_nyeon M h_wol D h_il
DetectLocalDay(q) ==
    LET Value(m) ==
            IF m.to = 0 THEN None
            ELSE Some(DayValue(IsoOf(m.y, m.mo, m.d), Slice(q, m.at, m.to)))
    IN  Value(LocalDayAt(q, SearchLocalDay(q)))

\* rule 4: YYYY h_nyeon M h_wol
DetectLocalMonth(q) ==
    LET Value(m) ==
            IF m.to = 0 THEN None
            ELSE Some(MonthValue(_month_range(m.y, m.mo), Slice(q, m.at, m.to)))
    IN  Value(LocalMonthAt(q, SearchLocalMonth(q)))

\* if m: return ...; otherwise go on to the next rule
OrElse(m, next) == IF ~IsNone(m) THEN m ELSE next

\* mutant: the single ISO date is tried before the explicit range
DetectDateDayFirst(q0) ==
    LET Rules(q) ==
            OrElse(DetectDay(q),
            OrElse(DetectRange(q),
            OrElse(DetectLocalDay(q),
            OrElse(DetectLocalMonth(q), None))))
    IN  Rules(_clean(q0))

\* the four rules on q = _clean(q), the first that matches returns
_detect_date(q0) ==
    LET Rules(q) ==
            OrElse(DetectRange(q),
            OrElse(DetectDay(q),
            OrElse(DetectLocalDay(q),
            OrElse(DetectLocalMonth(q), None))))
    IN  Rules(_clean(q0))

\* f'date >= "{v["start"]}" AND date <= "{v["end"]}"'
_build_date_filter(v) ==
    <<"d", "a", "t", "e", " ", ">", "=", " ", "\"">> \o v.start
        \o <<"\"", " ", "A", "N", "D", " ", "d", "a", "t", "e", " ", "<", "=", " ", "\"">>
        \o v.end \o <<"\"">>

\* q.replace(raw, "") stripped when raw is non-empty, else q
_strip_date(q, v) ==
    LET raw == v.raw
    IN  IF raw # <<>> THEN _clean(RemoveAllFrom(q, raw, 1)) ELSE q

\* (k1|k2) at i: the length of the keyword, 0 when none
KeywordLen(s, i, k1, k2) ==
    IF LitAt(s, k1, i) THEN Len(k1)
    ELSE IF LitAt(s, k2, i) THEN Len(k2)
    ELSE 0

\* (k1|k2)\s*[: fw_colon]\s* at i: the position after it, 0 when no match
LabelAt(s, i, k1, k2) ==
    LET n == KeywordLen(s, i, k1, k2)
        a == SkipSpaces(s, i + n)
    IN  IF n # 0 /\ CharAt(s, a) \in {":", "fw_colon"}
        THEN SkipSpaces(s, a + 1)
        ELSE 0

OwnerKeys == <<(<<"h_dam", "h_dang", "h_ja">>), (<<"h_jak", "h_seong", "h_ja">>)>>

CompanyKeys == <<(<<"h_geo", "h_rae", "h_cheo">>), (<<"h_hoe", "h_sa">>)>>

\* [class]+ from i (greedy): the first position at or after i outside the class
RECURSIVE SkipOwner(_, _)
SkipOwner(s, i) == IF i <= Len(s) /\ IsOwnerChar(s[i]) THEN SkipOwner(s, i + 1) ELSE i

RECURSIVE SkipCompany(_, _)
SkipCompany(s, i) == IF i <= Len(s) /\ IsCompanyChar(s[i]) THEN SkipCompany(s, i + 1) ELSE i

\* the owner pattern at i: [from, to) of group 2, to = 0 when no match
OwnerAt(s, i) ==
    LET b == LabelAt(s, i, OwnerKeys[1], OwnerKeys[2])
        e == SkipOwner(s, b)
    IN  IF b # 0 /\ e > b THEN [from |-> b, to |-> e] ELSE [from |-> 0, to |-> 0]

CompanyAt(s, i) ==
    LET b == LabelAt(s, i, CompanyKeys[1], CompanyKeys[2])
        e == SkipCompany(s, b)
    IN  IF b # 0 /\ e > b THEN [from |-> b, to |-> e] ELSE [from |-> 0, to |-> 0]

\* m.group(2).strip() if m else None
Group2(q, m) == IF m.to = 0 THEN None ELSE Some(Strip(Slice(q, m.from, m.to)))

_detect_owner(q) ==
    Group2(q, OwnerAt(q, Leftmost({i \in 1..Len(q) : OwnerAt(q, i).to # 0})))

_detect_company(q) ==
    Group2(q, CompanyAt(q, Leftmost({i \in 1..Len(q) : CompanyAt(q, i).to # 0})))

\* v.replace('"', '\\"')
RECURSIVE EscapeQuotes(_)
EscapeQuotes(v) ==
    IF v = <<>> THEN <<>>
    ELSE (IF Head(v) = "\"" THEN <<"\\", "\"">> ELSE <<Head(v)>>) \o EscapeQuotes(Tail(v))

\* f'owner: ANY("{v}")'
_build_owner_filter(v) ==
    <<"o", "w", "n", "e", "r", ":", " ", "A", "N", "Y", "(", "\"">>
        \o EscapeQuotes(v) \o <<"\"", ")">>

\* f'company: ANY("{v}")'
_build_company_filter(v) ==
    <<"c", "o", "m", "p", "a", "n", "y", ":", " ", "A", "N", "Y", "(", "\"">>
        \o EscapeQuotes(v) \o <<"\"", ")">>

\* (k1|k2)\s*[: fw_colon]\s* + re.escape(v) at i: the position after it, 0 when no match
LabelledAt(s, i, k1, k2, v) ==
    LET b == LabelAt(s, i, k1, k2)
    IN  IF b # 0 /\ LitAt(s, v, b) THEN b + Len(v) ELSE 0

\* re.sub(label + re.escape(v), "", s): every non-overlapping match, left to right
RECURSIVE SubLabelled(_, _, _, _, _)
SubLabelled(s, i, k1, k2, v) ==
    IF i > Len(s) THEN <<>>
    ELSE LET e == LabelledAt(s, i, k1, k2, v)
         IN  IF e # 0
             THEN SubLabelled(s, e, k1, k2, v)
             ELSE <<s[i]>> \o SubLabelled(s, i + 1, k1, k2, v)

_strip_owner(q, v) == _clean(SubLabelled(q, 1, OwnerKeys[1], OwnerKeys[2], v))

_strip_company(q, v) == _clean(SubLabelled(q, 1, CompanyKeys[1], CompanyKeys[2], v))

(***************************************************************************)
(* Pattern sets.  Every pattern of the source has the form \b...\b: Word   *)
(* is a literal body, the other three bodies are regular expressions.      *)
(***************************************************************************)
Word(text) == [kind |-> "word", text |-> text]

\* 202\d h_nyeon
PatYear == [kind |-> "year", text |-> <<"2", "0", "2", "\\d", "h_nyeon">>]

\* 20\d{2}-\d{2}-\d{2}
PatIsoDate == [kind |-> "isodate", text |-> <<"2", "0", "\\d{2}", "-", "\\d{2}", "-", "\\d{2}">>]

\* \d{1,2} h_wol
PatMonth == [kind |-> "month", text |-> <<"\\d{1,2}", "h_wol">>]

WORK_PATTERNS ==
    << Word(<<"h_eop", "h_mu">>),
       Word(<<"h_eop", "h_mu", "h_il", "h_ji">>),
       Word(<<"h_il", "h_ji">>),
       Word(<<"h_jak", "h_eop">>),
       Word(<<"h_bang", "h_mun">>),
       Word(<<"h_jeom", "h_geom">>),
       Word(<<"h_hoe", "h_ui">>),
       Word(<<"h_mi", "h_ting">>),
       Word(<<"h_il", "h_jeong">>),
       Word(<<"h_chul", "h_jang">>),
       Word(<<"h_ri", "h_po", "h_teu">>),
       Word(<<"h_bo", "h_go", "h_seo">>),
       Word(<<"h_geo", "h_rae", "h_cheo">>),
       Word(<<"h_dam", "h_dang", "h_ja">>),
       Word(<<"h_jang", "h_so">>),
       Word(<<"h_teuk", "h_i", "h_sa", "h_hang">>),
       PatYear,
       PatIsoDate,
       PatMonth >>

MANUAL_PATTERNS ==
    << Word(<<"h_mae", "h_nyu", "h_eol">>),
       Word(<<"h_ga", "h_i", "h_deu">>),
       Word(<<"h_seol", "h_myeong", "h_seo">>),
       Word(<<"h_gu", "h_seong">>),
       Word(<<"h_seol", "h_jeong">>),
       Word(<<"h_seol", "h_chi">>),
       Word(<<"h_eop", "h_geu", "h_re", "h_i", "h_deu">>),
       Word(<<"h_beo", "h_jeon">>),
       Word(<<"h_e", "h_reo">>),
       Word(<<"h_o", "h_ryu">>),
       Word(<<"h_teu", "h_reo", "h_beul", "h_syu", "h_ting">>),
       Word(<<"C", "L", "I">>),
       Word(<<"h_myeong", "h_ryeong", "h_eo">>),
       Word(<<"h_pa", "h_ra", "h_mi", "h_teo">>),
       Word(<<"R", "e", "l", "e", "a", "s", "e">>),
       Word(<<"K", "B">>),
       Word(<<"V", "M", "w", "a", "r", "e">>),
       Word(<<"C", "i", "s", "c", "o">>),
       Word(<<"E", "M", "C">>),
       Word(<<"U", "n", "i", "t", "y">>),
       Word(<<"M", "D", "S">>) >>

\* \b text \b at i, re.IGNORECASE
WordPatAt(s, text, i) ==
    LitAtI(s, text, i) /\ WordBoundary(s, i) /\ WordBoundary(s, i + Len(text))

\* \b202\d h_nyeon \b at i
YearPatAt(s, i) ==
    /\ LitAt(s, <<"2", "0", "2">>, i)
    /\ WordBoundary(s, i)
    /\ IsDigit(CharAt(s, i + 3))
    /\ CharAt(s, i + 4) = "h_nyeon"
    /\ WordBoundary(s, i + 5)

\* \b20\d{2}-\d{2}-\d{2}\b at i
IsoPatAt(s, i) ==
    /\ i + 9 <= Len(s)
    /\ s[i] = "2"
    /\ s[i + 1] = "0"
    /\ WordBoundary(s, i)
    /\ IsDigit(s[i + 2])
    /\ IsDigit(s[i + 3])
    /\ s[i + 4] = "-"
    /\ IsDigit(s[i + 5])
    /\ IsDigit(s[i + 6])
    /\ s[i + 7] = "-"
    /\ IsDigit(s[i + 8])
    /\ IsDigit(s[i + 9])
    /\ WordBoundary(s, i + 10)

\* \b\d{1,2} h_wol \b at i
MonthPatAt(s, i) ==
    /\ IsDigit(s[i])
    /\ WordBoundary(s, i)
    /\ \E n \in {1, 2} :
          /\ \A k \in 0..(n - 1) : IsDigit(CharAt(s, i + k))
          /\ CharAt(s, i + n) = "h_wol"
          /\ WordBoundary(s, i + n + 1)

\* re.search(p, s, flags=re.IGNORECASE) is not None
PatternMatches(p, s) ==
    \E i \in 1..Len(s) :
        CASE p.kind = "word"    -> WordPatAt(s, p.text, i)
          [] p.kind = "year"    -> YearPatAt(s, i)
          [] p.kind = "isodate" -> IsoPatAt(s, i)
          [] p.kind = "month"   -> MonthPatAt(s, i)

(***************************************************************************)
(* Types and the engine registry.                                          *)
(***************************************************************************)
FilterRule(field, detect, build, strip) ==
    [field |-> field, detect |-> detect, build |-> build, strip |-> strip]

EngineConfig(key, engine_id, patterns, default_on_tie, filter_rules) ==
    [key |-> key, engine_id |-> engine_id, patterns |-> patterns,
     default_on_tie |-> default_on_tie, filter_rules |-> filter_rules]

WORK_HIST_ENGINE_ID == "work-hist_1769394022215"

MANUAL_ENGINE_ID == "manual_1769391381390"

WorkRules ==
    << FilterRule("date", "_detect_date", "_build_date_filter", Some("_strip_date")),
       FilterRule("owner", "_detect_owner", "_build_owner_filter", Some("_strip_owner")),
       FilterRule("company", "_detect_company", "_build_company_filter", Some("_strip_company")) >>

ENGINE_REGISTRY ==
    << EngineConfig("work_hist", WORK_HIST_ENGINE_ID, WORK_PATTERNS, TRUE, WorkRules),
       EngineConfig("manual", MANUAL_ENGINE_ID, MANUAL_PATTERNS, FALSE, <<>>) >>

\* rule.detect(q), rule.build(val), rule.strip(query_text, val)
CallDetect(fn, q) ==
    CASE fn = "_detect_date"    -> _detect_date(q)
      [] fn = "_detect_owner"   -> _detect_owner(q)
      [] fn = "_detect_company" -> _detect_company(q)

CallBuild(fn, val) ==
    CASE fn = "_build_date_filter"    -> _build_date_filter(val)
      [] fn = "_build_owner_filter"   -> _build_owner_filter(val)
      [] fn = "_build_company_filter" -> _build_company_filter(val)

CallStrip(fn, text, val) ==
    CASE fn = "_strip_date"    -> _strip_date(text, val)
      [] fn = "_strip_owner"   -> _strip_owner(text, val)
      [] fn = "_strip_company" -> _strip_company(text, val)

(***************************************************************************)
(* Core: select + compile.                                                 *)
(***************************************************************************)
\* a dict with no entries
EmptyDict == <<>>

\* d[k] = v
DictSet(d, k, v) == (k :> v) @@ d

\* sep.join(parts)
RECURSIVE Join(_, _)
Join(parts, sep) ==
    IF parts = <<>> THEN <<>>
    ELSE IF Len(parts) = 1 THEN parts[1]
    ELSE parts[1] \o sep \o Join(Tail(parts), sep)

AndSep == <<" ", "A", "N", "D", " ">>

\* mutant: no fragment is parenthesized
ChunkNever(f) == f

\* f"({f})" if " AND " in f else f
Chunk(f) == IF Contains(f, AndSep) THEN <<"(">> \o f \o <<")">> ELSE f

\* mutant: only the first stripper runs, the later ones are skipped
ApplyRuleStripFirst(rule, val, acc) ==
    IF IsNone(val) \/ val.v = <<>>
    THEN acc
    ELSE [filters        |-> Append(acc.filters, CallBuild(rule.build, val.v)),
          matched_fields |-> DictSet(acc.matched_fields, rule.field, val.v),
          query_text     |-> IF ~IsNone(rule.strip) /\ acc.filters = <<>>
                             THEN CallStrip(rule.strip.v, acc.query_text, val.v)
                             ELSE acc.query_text]

\* the body of the for loop after val = rule.detect(q): acc holds the three
\* locals filters, matched_fields, query_text
ApplyRule(rule, val, acc) ==
    IF IsNone(val) \/ val.v = <<>>
    THEN acc
    ELSE [filters        |-> Append(acc.filters, CallBuild(rule.build, val.v)),
          matched_fields |-> DictSet(acc.matched_fields, rule.field, val.v),
          query_text     |-> IF ~IsNone(rule.strip)
                             THEN CallStrip(rule.strip.v, acc.query_text, val.v)
                             ELSE acc.query_text]

\* mutant: detect runs on the accumulated query_text instead of q
RECURSIVE CompileLoopOnResidual(_, _, _, _)
CompileLoopOnResidual(rules, k, q, acc) ==
    IF k > Len(rules) THEN acc
    ELSE CompileLoopOnResidual(rules, k + 1, q,
             ApplyRule(rules[k], CallDetect(rules[k].detect, acc.query_text), acc))

\* the for loop of _compile_with_rules from rule k on
RECURSIVE CompileLoop(_, _, _, _)
CompileLoop(rules, k, q, acc) ==
    IF k > Len(rules) THEN acc
    ELSE CompileLoop(rules, k + 1, q,
             ApplyRule(rules[k], CallDetect(rules[k].detect, q), acc))

\* mutant: the chunks are joined also when there are none
FilterExprAlways(filters) ==
    Some(Join([i \in 1..Len(filters) |-> Chunk(filters[i])], AndSep))

\* filter_expr: None, or the chunks joined by " AND " when there are filters
FilterExpr(filters) ==
    IF filters # <<>>
    THEN Some(Join([i \in 1..Len(filters) |-> Chunk(filters[i])], AndSep))
    ELSE None

\* bool(filter_expr), also the condition of the returned reason
Truthy(filter_expr) == ~IsNone(filter_expr) /\ filter_expr.v # <<>>

\* mutant: the residual is returned also when it is empty
ResidualOnly(query_text, q) == query_text

\* query_text if query_text else q
ResidualOrOriginal(query_text, q) == IF query_text # <<>> THEN query_text ELSE q

\* the dict returned after the loop
CompiledDict(filter_expr, query_text, matched_fields, q) ==
    [applied        |-> Truthy(filter_expr),
     filter_expr    |-> filter_expr,
     query_text     |-> ResidualOrOriginal(query_text, q),
     reason         |-> IF Truthy(filter_expr) THEN "compiled_from_engine_rules"
                                               ELSE "no_fields_matched",
     matched_fields |-> matched_fields]

\* filter_expr from the filters the loop left, then the returned dict
AfterLoop(out, q) ==
    CompiledDict(FilterExpr(out.filters), out.query_text, out.matched_fields, q)

\* _compile_with_rules after its early return: the loop and the returned dict
CompileRules(rules, q) ==
    AfterLoop(CompileLoop(rules, 1, q,
                  [filters |-> <<>>, matched_fields |-> EmptyDict, query_text |-> q]),
              q)

\* mutant: the early return for an engine without filter rules is missing
CompileNoEarlyReturn(cfg, user_query0) == CompileRules(cfg.filter_rules, _clean(user_query0))

\* mutant: the early return leaves out the keys that have no value
CompileShortEarlyReturn(cfg, user_query0) ==
    IF cfg.filter_rules = <<>>
    THEN [applied    |-> FALSE,
          query_text |-> _clean(user_query0),
          reason     |-> "engine_has_no_filter_rules"]
    ELSE CompileRules(cfg.filter_rules, _clean(user_query0))

_compile_with_rules(cfg, user_query0) ==
    LET q == _clean(user_query0)
    IN  IF cfg.filter_rules = <<>>
        THEN [applied        |-> FALSE,
              filter_expr    |-> None,
              query_text     |-> q,
              reason         |-> "engine_has_no_filter_rules",
              matched_fields |-> EmptyDict]
        ELSE CompileRules(cfg.filter_rules, q)

\* mutant: the inner loop stops at the first pattern that matches
RECURSIVE ScoreLoopFirstHit(_, _, _, _, _)
ScoreLoopFirstHit(patterns, k, q_for_match, s, hits) ==
    IF k > Len(patterns) THEN [s |-> s, hits |-> hits]
    ELSE IF PatternMatches(patterns[k], q_for_match)
         THEN [s |-> s + 1, hits |-> Append(hits, patterns[k])]
         ELSE ScoreLoopFirstHit(patterns, k + 1, q_for_match, s, hits)

\* the inner loop of step (1): s and hits after the patterns from k on
RECURSIVE ScoreLoop(_, _, _, _, _)
ScoreLoop(patterns, k, q_for_match, s, hits) ==
    IF k > Len(patterns) THEN [s |-> s, hits |-> hits]
    ELSE IF PatternMatches(patterns[k], q_for_match)
         THEN ScoreLoop(patterns, k + 1, q_for_match, s + 1, Append(hits, patterns[k]))
         ELSE ScoreLoop(patterns, k + 1, q_for_match, s, hits)

\* scores[cfg.key] = s; matched_patterns[cfg.key] = hits
Scored(acc, key, r) ==
    [scores           |-> DictSet(acc.scores, key, r.s),
     matched_patterns |-> DictSet(acc.matched_patterns, key, r.hits)]

\* the outer loop of step (1): scores and matched_patterns after the engines from n on
RECURSIVE ScoreAll(_, _, _, _)
ScoreAll(reg, n, q_for_match, acc) ==
    IF n > Len(reg) THEN acc
    ELSE ScoreAll(reg, n + 1, q_for_match,
                  Scored(acc, reg[n].key, ScoreLoop(reg[n].patterns, 1, q_for_match, 0, <<>>)))

\* scores.get(key, 0)
ScoreGet(scores, key) == IF key \in DOMAIN scores THEN scores[key] ELSE 0

\* max(scores.values()) if scores else 0
BestScore(scores) ==
    IF DOMAIN scores = {} THEN 0 ELSE MaxOf({scores[k] : k \in DOMAIN scores})

\* mutant: only engines that matched some pattern are candidates
CandidatesPositive(reg, scores, best_score) ==
    SelectSeq(reg, LAMBDA cfg : ScoreGet(scores, cfg.key) = best_score /\ best_score > 0)

\* mutant: the candidates are not filtered by the best score
CandidatesUnfiltered(reg, scores, best_score) == reg

\* [cfg for cfg in ENGINE_REGISTRY if scores.get(cfg.key, 0) == best_score]
Candidates(reg, scores, best_score) ==
    SelectSeq(reg, LAMBDA cfg : ScoreGet(scores, cfg.key) = best_score)

\* [c for c in candidates if c.default_on_tie]
DefaultCandidates(candidates) == SelectSeq(candidates, LAMBDA c : c.default_on_tie)

\* the three f-strings of engine_reason, as the sequence of their pieces: the
\* literal text of each is one piece, {selected.key} is the key and
\* {best_score} its decimal digits
ReasonHighest(key, best_score) ==
    <<key, " score is highest (", key, "=">> \o IntStr(best_score) \o <<")">>

ReasonDefaultOnTie(key, best_score) ==
    <<"tie(">> \o IntStr(best_score) \o <<") -> by the default_on_tie rule ", key, " selected">>

ReasonRegistryOrder(key, best_score) ==
    <<"tie(">> \o IntStr(best_score) \o <<") -> by priority (registry order) ", key, " selected">>

\* mutant: default_candidates[-1] instead of default_candidates[0]
SelectLastDefault(candidates, best_score) ==
    IF Len(candidates) = 1
    THEN [raised |-> "none", selected |-> candidates[1],
          engine_reason |-> ReasonHighest(candidates[1].key, best_score)]
    ELSE LET default_candidates == DefaultCandidates(candidates)
             last == default_candidates[Len(default_candidates)]
         IN  IF default_candidates # <<>>
             THEN [raised |-> "none", selected |-> last,
                   engine_reason |-> ReasonDefaultOnTie(last.key, best_score)]
             ELSE IF candidates # <<>>
             THEN [raised |-> "none", selected |-> candidates[1],
                   engine_reason |-> ReasonRegistryOrder(candidates[1].key, best_score)]
             ELSE [raised |-> "IndexError"]

\* mutant: the two tie reasons are exchanged
SelectSwappedReasons(candidates, best_score) ==
    IF Len(candidates) = 1
    THEN [raised |-> "none", selected |-> candidates[1],
          engine_reason |-> ReasonHighest(candidates[1].key, best_score)]
    ELSE LET default_candidates == DefaultCandidates(candidates)
         IN  IF default_candidates # <<>>
             THEN [raised |-> "none", selected |-> default_candidates[1],
                   engine_reason |-> ReasonRegistryOrder(default_candidates[1].key, best_score)]
             ELSE IF candidates # <<>>
             THEN [raised |-> "none", selected |-> candidates[1],
                   engine_reason |-> ReasonDefaultOnTie(candidates[1].key, best_score)]
             ELSE [raised |-> "IndexError"]

\* step (2): the selected engine and engine_reason; candidates[0] on an empty
\* list raises IndexError
Select(candidates, best_score) ==
    IF Len(candidates) = 1
    THEN [raised |-> "none", selected |-> candidates[1],
          engine_reason |-> ReasonHighest(candidates[1].key, best_score)]
    ELSE LET default_candidates == DefaultCandidates(candidates)
         IN  IF default_candidates # <<>>
             THEN [raised |-> "none", selected |-> default_candidates[1],
                   engine_reason |-> ReasonDefaultOnTie(default_candidates[1].key, best_score)]
             ELSE IF candidates # <<>>
             THEN [raised |-> "none", selected |-> candidates[1],
                   engine_reason |-> ReasonRegistryOrder(candidates[1].key, best_score)]
             ELSE [raised |-> "IndexError"]

\* the value of result before any call has returned
NoResult == [engine_key |-> "<none>"]

\* step (3): compile with the rules of the selected engine and return the
\* dict, unless step (2) raised
CompileSelected(q, sc, sel) ==
    IF sel.raised # "none"
    THEN [raised |-> sel.raised, value |-> NoResult]
    ELSE [raised |-> "none",
          value  |-> [engine_id        |-> sel.selected.engine_id,
                      engine_key       |-> sel.selected.key,
                      engine_reason    |-> sel.engine_reason,
                      scores           |-> sc.scores,
                      matched_patterns |-> sc.matched_patterns,
                      compiled         |-> _compile_with_rules(sel.selected, q)]]

\* step (2): the candidates with the best score and the selection among them
SelectBest(q, sc, best_score) ==
    CompileSelected(q, sc, Select(Candidates(registry, sc.scores, best_score), best_score))

\* best_score = max(scores.values()) if scores else 0
AfterScores(q, sc) == SelectBest(q, sc, BestScore(sc.scores))

\* step (1) on q_for_match = q.lower()
ScoreQuery(q) ==
    AfterScores(q, ScoreAll(registry, 1, StrLower(q),
                            [scores |-> EmptyDict, matched_patterns |-> EmptyDict]))

select_and_compile(user_query0) == ScoreQuery(_clean(user_query0))

(***************************************************************************)
(* The program: the registry is built once at import, then                 *)
(* select_and_compile is called with one query after another.              *)
(***************************************************************************)
MaxSegs == 3

\* the pieces user queries are made of
Segments ==
    { <<" ">>,
      <<"2", "0", "2", "4", "-", "0", "1", "-", "3", "1">>,
      <<"2", "0", "2", "4", "-", "0", "1", "-", "0", "1">>,
      <<"~">>,
      <<"h_kka", "h_ji">>,
      <<"2", "0", "2", "4", "h_nyeon", " ", "2", "h_wol">>,
      <<"3", "h_il">>,
      <<"h_dam", "h_dang", "h_ja", ":">>,
      <<"h_hong", "h_gil", "h_dong">>,
      <<"h_hoe", "h_sa", ":">>,
      <<"(", "h_ju", ")">>,
      <<"V", "M", "w", "a", "r", "e">>,
      <<"h_bang", "h_mun">>,
      <<"\"">>,
      <<" ", "A", "N", "D", " ">> }

RECURSIVE Concats(_, _)
Concats(segs, n) ==
    IF n = 0 THEN {<<>>}
    ELSE LET shorter == Concats(segs, n - 1)
         IN  shorter \cup {q \o seg : q \in shorter, seg \in segs}

Queries == Concats(Segments, MaxSegs)

Init ==
    /\ registry = ENGINE_REGISTRY
    /\ user_query \in Queries
    /\ result = NoResult
    /\ error = "none"
    /\ pc = "call"

(***************************************************************************)
(* The selector on other registries than the one of the source: every      *)
(* sequence of up to MaxEngines engines with distinct keys, each with      *)
(* either tie flag.  The third engine, archive, is not in the source: it   *)
(* shares the work-history patterns and has no filter rules.               *)
(***************************************************************************)
MaxEngines == 3

MaxWords == 3

EngineChoices ==
    UNION { { EngineConfig("work_hist", WORK_HIST_ENGINE_ID, WORK_PATTERNS, f, WorkRules),
              EngineConfig("manual", MANUAL_ENGINE_ID, MANUAL_PATTERNS, f, <<>>),
              EngineConfig("archive", "archive_0", WORK_PATTERNS, f, <<>>) } : f \in BOOLEAN }

DistinctKeys(reg) == \A i, j \in 1..Len(reg) : reg[i].key = reg[j].key => i = j

Registries ==
    UNION { {reg \in [1..n -> EngineChoices] : DistinctKeys(reg)} : n \in 1..MaxEngines }

\* the pieces of the queries put to these registries
Words ==
    { <<" ">>,
      <<"V", "M", "w", "a", "r", "e">>,
      <<"K", "B">>,
      <<"h_bang", "h_mun">>,
      <<"h_hong", "h_gil", "h_dong">> }

WordQueries == Concats(Words, MaxWords)

InitRegistries ==
    /\ registry \in Registries
    /\ user_query \in WordQueries
    /\ result = NoResult
    /\ error = "none"
    /\ pc = "call"

\* one call select_and_compile(user_query), to its return or its exception
SelectAndCompile ==
    /\ pc = "call"
    /\ \E out \in {select_and_compile(user_query)} :
           /\ result' = out.value
           /\ error' = out.raised
    /\ pc' = "returned"
    /\ UNCHANGED <<registry, user_query>>

Next == SelectAndCompile

Spec == Init /\ [][Next]_vars

SpecRegistries == InitRegistries /\ [][Next]_vars

(***************************************************************************)
(* Queries that hold an explicit date range: a date, a connector and a     *)
(* date, with up to MaxGap spaces on either side of the connector, then    *)
(* nothing, the marker h_kka h_ji attached or after a space, and then      *)
(* nothing or a further word.                                              *)
(***************************************************************************)
MaxGap == 1

RangeDates ==
    { <<"2", "0", "2", "4", "-", "0", "1", "-", "0", "1">>,
      <<"2", "0", "2", "4", "-", "0", "1", "-", "3", "1">> }

RangeConnectors ==
    { <<"~">>, <<"tilde_op">>, <<"-">>, <<"en_dash">>, <<"em_dash">>,
      <<"t", "o">>, <<"h_bu", "h_teo">> }

Spaces(n) == [i \in 1..n |-> " "]

Gaps == {Spaces(n) : n \in 0..MaxGap}

RangeTrailers == {<<>>, <<"h_kka", "h_ji">>, <<" ", "h_kka", "h_ji">>}

RangeSuffixes == {<<>>, <<" ", "h_bang", "h_mun">>}

RangeQueries ==
    {d1 \o g1 \o c \o g2 \o d2 \o t \o w :
        d1 \in RangeDates, g1 \in Gaps, c \in RangeConnectors, g2 \in Gaps,
        d2 \in RangeDates, t \in RangeTrailers, w \in RangeSuffixes}

InitRanges ==
    /\ registry = ENGINE_REGISTRY
    /\ user_query \in RangeQueries
    /\ result = NoResult
    /\ error = "none"
    /\ pc = "call"

SpecRanges == InitRanges /\ [][Next]_vars

(***************************************************************************)
(* Queries that hold a localized year and month: every year the pattern    *)
(* 20\d{2} admits and every month, with up to MaxGap spaces after h_nyeon, *)
(* followed by nothing, a word, or a day designator.                       *)
(***************************************************************************)
Years == 2000..2099

Months == 1..12

MonthSuffixes ==
    { <<>>,
      <<" ", "h_bang", "h_mun">>,
      <<"3", "h_il">>,
      <<" ", "3", "h_il">> }

MonthQueries ==
    {IntStr(y) \o <<"h_nyeon">> \o g \o IntStr(m) \o <<"h_wol">> \o w :
        y \in Years, m \in Months, g \in Gaps, w \in MonthSuffixes}

InitMonths ==
    /\ registry = ENGINE_REGISTRY
    /\ user_query \in MonthQueries
    /\ result = NoResult
    /\ error = "none"
    /\ pc = "call"

SpecMonths == InitMonths /\ [][Next]_vars

(***************************************************************************)
(* Properties of the selector.                                             *)
(***************************************************************************)
Returned == pc = "returned"

\* the positions of the registry entries the returned record names
SelectedEntries ==
    {n \in 1..Len(registry) :
        registry[n].key = result.engine_key /\ registry[n].engine_id = result.engine_id}

\* the highest returned score, and the positions of the engines that have it
TopScore == MaxOf({result.scores[k] : k \in DOMAIN result.scores})

Tied == {n \in 1..Len(registry) : result.scores[registry[n].key] = TopScore}

TiedWithFlag == {n \in Tied : registry[n].default_on_tie}

AllScoresZero == \A k \in DOMAIN result.scores : result.scores[k] = 0

\* C1: every call of select_and_compile, whatever the query (the empty one and
\* one that matches no pattern included), returns without an error and names
\* exactly one engine, which is an entry of the registry.
C1_OneRegisteredEngine ==
    Returned => error = "none" /\ Cardinality(SelectedEntries) = 1

\* a non-empty query that matches no pattern of any engine has been classified
C1_Witness ==
    Returned /\ error = "none" /\ user_query # <<>> /\ AllScoresZero
        /\ Cardinality(SelectedEntries) = 1

\* C2: the selected engine has the maximum of all scores; an engine whose score
\* is strictly above every other engine's is the one selected, whatever the
\* default_on_tie flags are.
C2_SelectedHasBestScore ==
    Returned =>
        /\ error = "none"
        /\ \A k \in DOMAIN result.scores : result.scores[k] <= result.scores[result.engine_key]
        /\ \A n \in 1..Len(registry) :
              (\A m \in 1..Len(registry) :
                  m # n => result.scores[registry[m].key] < result.scores[registry[n].key])
              => result.engine_key = registry[n].key

\* only manual patterns matched, work_hist carries default_on_tie, manual is selected
C2_Witness ==
    /\ Returned
    /\ registry = ENGINE_REGISTRY
    /\ result.scores["manual"] > 0
    /\ result.scores["work_hist"] = 0
    /\ result.engine_key = "manual"

\* C3: on a tie for the best score (the all-zero case included) the selected
\* engine is the first tied engine in registry order that has default_on_tie,
\* and the first tied engine in registry order when no tied engine has it; an
\* engine with default_on_tie outside the tie is never selected.
C3_TieBreak ==
    Returned /\ Cardinality(Tied) >= 2 =>
        /\ error = "none"
        /\ result.engine_key =
              registry[IF TiedWithFlag # {} THEN MinOf(TiedWithFlag) ELSE MinOf(Tied)].key
        /\ SelectedEntries \subseteq Tied

\* two engines tie without the flag, a third engine has the flag and a lower score
C3_Witness ==
    /\ Returned
    /\ Cardinality(Tied) >= 2
    /\ TiedWithFlag = {}
    /\ \E n \in 1..Len(registry) : n \notin Tied /\ registry[n].default_on_tie
    /\ result.engine_key = registry[MinOf(Tied)].key

\* C4: engine_reason tells the path taken: the winning score when one engine
\* has the best score, the default_on_tie rule exactly when the tie holds an
\* engine with the flag, the registry order exactly when it holds none; it
\* names the selected engine and the best score.
C4_ReasonTellsPath ==
    Returned =>
        /\ error = "none"
        /\ result.engine_reason =
              IF Cardinality(Tied) = 1
              THEN ReasonHighest(result.engine_key, TopScore)
              ELSE IF TiedWithFlag # {}
              THEN ReasonDefaultOnTie(result.engine_key, TopScore)
              ELSE ReasonRegistryOrder(result.engine_key, TopScore)

\* a tie at a non-zero score broken by registry order
C4_Witness ==
    /\ Returned
    /\ Cardinality(Tied) >= 2
    /\ TiedWithFlag = {}
    /\ TopScore > 0
    /\ result.engine_reason = ReasonRegistryOrder(result.engine_key, TopScore)

(***************************************************************************)
(* Properties of the compiler.                                             *)
(***************************************************************************)
SelectedEngine == registry[CHOOSE n \in SelectedEntries : TRUE]

SelectedRules == SelectedEngine.filter_rules

Compiled == result.compiled

MatchedFields == DOMAIN Compiled.matched_fields

\* the user's query without its leading and trailing whitespace
Trimmed == Strip(user_query)

\* what each rule of the selected engine detects in the user's query
DetectedBy(k) == CallDetect(SelectedRules[k].detect, user_query)

AnyDetected == \E k \in 1..Len(SelectedRules) : ~IsNone(DetectedBy(k))

\* the strippers of the detected fields applied one after the other, in the
\* order date, owner, company
ResidualText ==
    LET d  == _detect_date(Trimmed)
        t1 == IF IsNone(d) THEN Trimmed ELSE _strip_date(Trimmed, d.v)
        o  == _detect_owner(Trimmed)
        t2 == IF IsNone(o) THEN t1 ELSE _strip_owner(t1, o.v)
        c  == _detect_company(Trimmed)
    IN  IF IsNone(c) THEN t2 ELSE _strip_company(t2, c.v)

\* C5 as stated: with an engine without filter rules the compiler returns
\* applied=false, no filter_expr, query_text equal to the unchanged original
\* query, reason "no_filter_rules" and empty matched_fields.
C5_AsStated ==
    Returned /\ SelectedRules = <<>> =>
        /\ Compiled.applied = FALSE
        /\ Compiled.filter_expr = None
        /\ Compiled.query_text = user_query
        /\ Compiled.reason = "no_filter_rules"
        /\ MatchedFields = {}

\* C5 amended: with an engine without filter rules the compiler returns
\* applied=false, no filter_expr, query_text equal to the original query
\* without its leading and trailing whitespace, reason
\* "engine_has_no_filter_rules" and empty matched_fields, for every query.
C5_NoFilterRules ==
    Returned /\ SelectedRules = <<>> =>
        /\ Compiled.applied = FALSE
        /\ Compiled.filter_expr = None
        /\ Compiled.query_text = Trimmed
        /\ Compiled.reason = "engine_has_no_filter_rules"
        /\ MatchedFields = {}

\* an engine without rules compiled a padded query that holds a company field
C5_Witness ==
    /\ Returned
    /\ SelectedRules = <<>>
    /\ ~IsNone(_detect_company(user_query))
    /\ Trimmed # user_query
    /\ Compiled.query_text = Trimmed

\* C6 as stated: when a rule of the selected engine detects a value the
\* compiler returns applied=true, a filter_expr, reason "compiled", and the
\* final residual as query_text, or the original query when the residual is
\* empty; query_text is not empty for a non-blank query.
C6_AsStated ==
    Returned /\ SelectedRules # <<>> /\ AnyDetected =>
        /\ Compiled.applied = TRUE
        /\ ~IsNone(Compiled.filter_expr)
        /\ Compiled.reason = "compiled"
        /\ Compiled.query_text = IF ResidualText # <<>> THEN ResidualText ELSE user_query
        /\ Trimmed # <<>> => Compiled.query_text # <<>>

\* C6 amended: when a rule of the selected engine detects a value the compiler
\* returns applied=true, a non-empty filter_expr, reason
\* "compiled_from_engine_rules", and the final residual as query_text, or the
\* original query without its leading and trailing whitespace when the
\* residual is empty; query_text is not empty for a non-blank query.
C6_Compiled ==
    Returned /\ SelectedRules # <<>> /\ AnyDetected =>
        /\ Compiled.applied = TRUE
        /\ ~IsNone(Compiled.filter_expr)
        /\ Compiled.filter_expr.v # <<>>
        /\ Compiled.reason = "compiled_from_engine_rules"
        /\ Compiled.query_text = IF ResidualText # <<>> THEN ResidualText ELSE Trimmed
        /\ Trimmed # <<>> => Compiled.query_text # <<>>

\* the strippers removed the whole of a padded query and the trimmed query came back
C6_Witness ==
    /\ Returned
    /\ SelectedRules # <<>>
    /\ AnyDetected
    /\ ResidualText = <<>>
    /\ Trimmed # user_query
    /\ Compiled.query_text = Trimmed

\* C7 as stated: when the selected engine has rules and none detects a value,
\* the call returns normally with applied=false, no filter_expr, query_text
\* equal to the original query, reason "no_fields_matched" and empty
\* matched_fields.
C7_AsStated ==
    Returned /\ SelectedRules # <<>> /\ ~AnyDetected =>
        /\ error = "none"
        /\ Compiled.applied = FALSE
        /\ Compiled.filter_expr = None
        /\ Compiled.query_text = user_query
        /\ Compiled.reason = "no_fields_matched"
        /\ MatchedFields = {}

\* C7 amended: when the selected engine has rules and none detects a value,
\* the call returns normally with applied=false, no filter_expr, query_text
\* equal to the original query without its leading and trailing whitespace,
\* reason "no_fields_matched" and empty matched_fields.
C7_NoFieldsMatched ==
    Returned /\ SelectedRules # <<>> /\ ~AnyDetected =>
        /\ error = "none"
        /\ Compiled.applied = FALSE
        /\ Compiled.filter_expr = None
        /\ Compiled.query_text = Trimmed
        /\ Compiled.reason = "no_fields_matched"
        /\ MatchedFields = {}

\* the rules of the selected engine found nothing in a padded, non-blank query
C7_Witness ==
    /\ Returned
    /\ SelectedRules # <<>>
    /\ ~AnyDetected
    /\ Trimmed # <<>>
    /\ Trimmed # user_query
    /\ Compiled.reason = "no_fields_matched"

\* the filter fragments as the filter language writes them
DateFragment(v) ==
    <<"d","a","t","e"," ",">","="," ","\"">> \o v.start \o
    <<"\""," ","A","N","D"," ","d","a","t","e"," ","<","="," ","\"">> \o v.end \o <<"\"">>

AnyFragment(name, v) == name \o <<":"," ","A","N","Y","(","\"">> \o v \o <<"\"",")">>

OwnerFragment(v) == AnyFragment(<<"o","w","n","e","r">>, v)

CompanyFragment(v) == AnyFragment(<<"c","o","m","p","a","n","y">>, v)

Parenthesized(f) == <<"(">> \o f \o <<")">>

\* the fragments of the matched fields in the order date, owner, company,
\* the date fragment in parentheses
ExpectedChunks ==
    LET mf == Compiled.matched_fields
    IN  (IF "date" \in MatchedFields THEN <<Parenthesized(DateFragment(mf["date"]))>> ELSE <<>>)
        \o (IF "owner" \in MatchedFields THEN <<OwnerFragment(mf["owner"])>> ELSE <<>>)
        \o (IF "company" \in MatchedFields THEN <<CompanyFragment(mf["company"])>> ELSE <<>>)

\* C8: the combined filter_expr is the fragments of the matched fields in the
\* order date, owner, company, joined by " AND "; the date fragment contains
\* " AND " and is parenthesized, the owner and company fragments never contain
\* " AND " and are never parenthesized; with a date and an owner matched the
\* result is (date >= "S" AND date <= "E") AND owner: ANY("V").
C8_CombinedFilter ==
    Returned /\ Compiled.applied =>
        LET mf == Compiled.matched_fields
        IN  /\ MatchedFields \subseteq {"date", "owner", "company"}
            /\ Compiled.filter_expr = Some(Join(ExpectedChunks, AndSep))
            /\ "date" \in MatchedFields => Contains(_build_date_filter(mf["date"]), AndSep)
            /\ "owner" \in MatchedFields => ~Contains(_build_owner_filter(mf["owner"]), AndSep)
            /\ "company" \in MatchedFields => ~Contains(_build_company_filter(mf["company"]), AndSep)
            /\ MatchedFields = {"date", "owner"} =>
                   Compiled.filter_expr.v =
                       Parenthesized(DateFragment(mf["date"])) \o AndSep \o OwnerFragment(mf["owner"])

\* a date and an owner were matched and the parenthesized date fragment is
\* followed by the bare owner fragment
C8_Witness ==
    /\ Returned
    /\ Compiled.applied
    /\ MatchedFields = {"date", "owner"}
    /\ Compiled.filter_expr.v =
           Parenthesized(DateFragment(Compiled.matched_fields["date"])) \o AndSep
               \o OwnerFragment(Compiled.matched_fields["owner"])

\* C9: every rule's detector is run on the original query: a field is in
\* matched_fields exactly when its detector finds a value in the original
\* query, and the recorded value is that value, whatever the strippers of the
\* preceding rules removed.
C9_DetectOnOriginal ==
    Returned /\ SelectedRules # <<>> =>
        \A k \in 1..Len(SelectedRules) :
            LET field == SelectedRules[k].field
                val   == DetectedBy(k)
            IN  IF IsNone(val)
                THEN field \notin MatchedFields
                ELSE field \in MatchedFields /\ Compiled.matched_fields[field] = val.v

\* an owner was recorded although the text left after stripping the date has
\* another owner value, or none
C9_Witness ==
    /\ Returned
    /\ {"date", "owner"} \subseteq MatchedFields
    /\ LET left == _strip_date(Trimmed, Compiled.matched_fields["date"])
           seen == _detect_owner(left)
       IN  seen # Some(Compiled.matched_fields["owner"])

\* C10: the date detector returns the result of the first of its four rules
\* that matches anywhere in the query, in the order explicit ISO range, single
\* ISO date, localized full date, localized year and month, also when the text
\* of a later rule occurs earlier in the query; when no rule matches it returns
\* absence.
C10_DatePriority ==
    Returned =>
        LET d == _detect_date(user_query)
        IN  /\ IF SearchRange(Trimmed) # 0 THEN d = DetectRange(Trimmed) /\ d.v.type = "range"
               ELSE IF SearchDay(Trimmed) # 0 THEN d = DetectDay(Trimmed) /\ d.v.type = "day"
               ELSE IF SearchLocalDay(Trimmed) # 0 THEN d = DetectLocalDay(Trimmed) /\ d.v.type = "day"
               ELSE IF SearchLocalMonth(Trimmed) # 0 THEN d = DetectLocalMonth(Trimmed) /\ d.v.type = "month"
               ELSE IsNone(d)
            /\ SelectedRules # <<>> =>
                   IF IsNone(d) THEN "date" \notin MatchedFields
                   ELSE "date" \in MatchedFields /\ Compiled.matched_fields["date"] = d.v

\* a single ISO date was matched although a localized year and month stands
\* before it in the query
C10_Witness ==
    /\ Returned
    /\ SearchRange(Trimmed) = 0
    /\ SearchDay(Trimmed) # 0
    /\ SearchLocalMonth(Trimmed) # 0
    /\ SearchLocalMonth(Trimmed) < SearchDay(Trimmed)
    /\ "date" \in MatchedFields
    /\ Compiled.matched_fields["date"].type = "day"
    /\ Compiled.matched_fields["date"].raw = Slice(Trimmed, SearchDay(Trimmed), SearchDay(Trimmed) + 10)

(***************************************************************************)
(* Properties of the date detector.                                        *)
(***************************************************************************)
\* the code points of the characters of an ISO date: "-" sorts before the digits
IsoRank(c) == IF c = "-" THEN 0 ELSE 1 + DigitVal[c]

\* a <= b for two strings, compared character by character from the left
RECURSIVE LexLeq(_, _)
LexLeq(a, b) ==
    IF a = <<>> THEN TRUE
    ELSE IF b = <<>> THEN FALSE
    ELSE IF IsoRank(Head(a)) # IsoRank(Head(b)) THEN IsoRank(Head(a)) < IsoRank(Head(b))
    ELSE LexLeq(Tail(a), Tail(b))

\* the date the detector finds in the user's query
DateFound == _detect_date(user_query)

\* C11: every value returned by the date detector has start <= end in the
\* lexicographic order of the ISO strings, for every query, an explicit range
\* with descending endpoints included.
C11_StartNotAfterEnd ==
    Returned /\ ~IsNone(DateFound) => LexLeq(DateFound.v.start, DateFound.v.end)

\* the positions of the ISO dates written in the user's query, and the first
\* and the last of these dates
IsoPositions == {i \in 1..Len(user_query) : IsoAt(user_query, i)}

FirstIso == Slice(user_query, MinOf(IsoPositions), MinOf(IsoPositions) + 10)

LastIso == Slice(user_query, MaxOf(IsoPositions), MaxOf(IsoPositions) + 10)

\* the two comparisons of the date fragment
LowerBound(iso) == <<"d", "a", "t", "e", " ", ">", "=", " ", "\"">> \o iso \o <<"\"">>

UpperBound(iso) == <<"d", "a", "t", "e", " ", "<", "=", " ", "\"">> \o iso \o <<"\"">>

\* C12: for every query that contains an explicit ISO date range (date,
\* connector, date, optionally followed by h_kka h_ji) the date detector returns
\* exactly that pair as start and end, and the returned filter expression
\* contains both bounds.
C12_ExplicitRange ==
    Returned =>
        /\ ~IsNone(DateFound)
        /\ DateFound.v.start = FirstIso
        /\ DateFound.v.end = LastIso
        /\ ~IsNone(Compiled.filter_expr)
        /\ Contains(Compiled.filter_expr.v, LowerBound(FirstIso))
        /\ Contains(Compiled.filter_expr.v, UpperBound(LastIso))

\* the year and the month written at the head of the user's query
WolAt == MinOf({i \in 1..Len(user_query) : user_query[i] = "h_wol"})

QueryYear == IntOf(SubSeq(user_query, 1, 4))

QueryMonth == IntOf(SelectSeq(SubSeq(user_query, 6, WolAt - 1), IsDigit))

NoDayDesignator == \A i \in 1..Len(user_query) : user_query[i] # "h_il"

\* the number of days of month mo of year y in the Gregorian calendar
LastDay(y, mo) ==
    IF mo \in {4, 6, 9, 11} THEN 30
    ELSE IF mo # 2 THEN 31
    ELSE IF y % 400 = 0 \/ (y % 4 = 0 /\ y % 100 # 0) THEN 29
    ELSE 28

TwoDigits(n) == <<DigitOf(n \div 10), DigitOf(n % 10)>>

IsoText(y, mo, d) == IntStr(y) \o <<"-">> \o TwoDigits(mo) \o <<"-">> \o TwoDigits(d)

OwnerStart == Leftmost({i \in 1..Len(Trimmed) : OwnerAt(Trimmed, i).to # 0})

CompanyStart == Leftmost({i \in 1..Len(Trimmed) : CompanyAt(Trimmed, i).to # 0})

MatchedText(field) ==
    CASE field = "date"    -> Strip(Compiled.matched_fields["date"].raw)
      [] field = "owner"   -> Slice(Trimmed, OwnerStart, OwnerAt(Trimmed, OwnerStart).to)
      [] field = "company" -> Slice(Trimmed, CompanyStart, CompanyAt(Trimmed, CompanyStart).to)

\* C14: for every query in which a date, owner or company field is detected,
\* the detector of that field finds nothing in the query_text the compiler
\* returns, and the returned query_text does not contain the matched text.
C14_StripIdempotent ==
    Returned /\ SelectedRules # <<>> =>
        \A k \in 1..Len(SelectedRules) :
            SelectedRules[k].field \in MatchedFields =>
                /\ IsNone(CallDetect(SelectedRules[k].detect, Compiled.query_text))
                /\ ~Contains(Compiled.query_text, MatchedText(SelectedRules[k].field))

(***************************************************************************)
(* Properties of the returned record.                                      *)
(***************************************************************************)
RegistryKeys == {registry[n].key : n \in 1..Len(registry)}

IsList(x) == DOMAIN x = 1..Len(x)

Reasons == {"engine_has_no_filter_rules", "compiled_from_engine_rules", "no_fields_matched"}

\* C15: the record select_and_compile returns has the same schema whatever
\* engine is selected and whatever branch the compiler takes: the keys
\* engine_id, engine_key, engine_reason, scores (an integer for each engine of
\* the registry), matched_patterns (a list for each engine of the registry) and
\* compiled with the keys applied, filter_expr, query_text, reason,
\* matched_fields; engine_id and engine_key are those of one registry entry.
C15_StableSchema ==
    Returned =>
        /\ error = "none"
        /\ DOMAIN result = {"engine_id", "engine_key", "engine_reason", "scores",
                            "matched_patterns", "compiled"}
        /\ DOMAIN result.scores = RegistryKeys
        /\ \A k \in RegistryKeys : result.scores[k] \in Nat
        /\ DOMAIN result.matched_patterns = RegistryKeys
        /\ \A k \in RegistryKeys : IsList(result.matched_patterns[k])
        /\ DOMAIN Compiled = {"applied", "filter_expr", "query_text", "reason", "matched_fields"}
        /\ Compiled.applied \in BOOLEAN
        /\ Compiled.reason \in Reasons
        /\ IsList(Compiled.query_text)
        /\ IsNone(Compiled.filter_expr) \/ IsList(Compiled.filter_expr.v)
        /\ SelectedEntries # {}

\* each of the three branches of the compiler returned the five keys: this
\* one is the early return for the engine without rules, on a query with a field
C15_Witness ==
    /\ Returned
    /\ result.engine_key = "manual"
    /\ Compiled.reason = "engine_has_no_filter_rules"
    /\ ~IsNone(_detect_company(user_query))
    /\ DOMAIN Compiled = {"applied", "filter_expr", "query_text", "reason", "matched_fields"}


(***************************************************************************)
(* The engine of the caller.  select_and_compile takes the query and       *)
(* nothing else (line 814), so an engine identifier the caller holds is    *)
(* no input of the call: whichever engine of the registry the caller       *)
(* names, the record returned is the one of SelectAndCompile.              *)
(***************************************************************************)
CallerEngines == DOMAIN registry

\* what the compiler yields on the rules of the engine the caller names
CallerCompiled(e) == _compile_with_rules(registry[e], user_query)

\* C16: when the caller supplies an engine identifier with the query, the
\* compiled query (filter_expr, query_text, matched_fields) is the one made
\* from the filter rules of that engine, whichever engine the selector
\* scores highest.
C16_CallerEngineRules ==
    Returned =>
        \A e \in CallerEngines :
            /\ Compiled.filter_expr = CallerCompiled(e).filter_expr
            /\ Compiled.query_text = CallerCompiled(e).query_text
            /\ Compiled.matched_fields = CallerCompiled(e).matched_fields


(***************************************************************************)
(* Startup.  Importing the module evaluates the list literal of lines      *)
(* 787-806 and wraps the tools (lines 929-930); no statement between them  *)
(* looks at the length of the registry.  The registry is the one           *)
(* configured in that literal: any of Registries, or no engine at all.     *)
(***************************************************************************)
ConfiguredRegistries == Registries \cup {<<>>}

InitStartup ==
    /\ registry \in ConfiguredRegistries
    /\ user_query \in WordQueries
    /\ result = NoResult
    /\ error = "none"
    /\ pc = "import"

\* the import of search_tools: the registry is bound as written
Startup ==
    /\ pc = "import"
    /\ pc' = "call"
    /\ UNCHANGED <<registry, user_query, result, error>>

NextStartup == Startup \/ SelectAndCompile

SpecStartup == InitStartup /\ [][NextStartup]_vars

MaxCalls == 2

Calls == 1..MaxCalls

CallQueries ==
    { <<>>,
      <<"V", "M", "w", "a", "r", "e">>,
      <<"h_bang", "h_mun">>,
      <<"2", "0", "2", "4", "-", "0", "1", "-", "3", "1", " ", "h_bang", "h_mun">>,
      <<"V", "M", "w", "a", "r", "e", " ", "2", "0", "2", "4", "-", "0", "1", "-", "3", "1">>,
      <<"h_dam", "h_dang", "h_ja", ":", "h_hong", "h_gil", "h_dong", " ", "h_bang", "h_mun">> }

InitCalls ==
    /\ registry = ENGINE_REGISTRY
    /\ user_query \in [Calls -> CallQueries]
    /\ result = [c \in Calls |-> NoResult]
    /\ error = [c \in Calls |-> "none"]
    /\ pc = [c \in Calls |-> "call"]

\* mutant: scores and matched_patterns are module-level dicts, so a call
\* reads what the earliest call still running has written
ScoresShared(frames, c) ==
    frames[CHOOSE d \in DOMAIN frames : "sc" \in DOMAIN frames[d]].sc

\* scores and matched_patterns are locals of the call (lines 838-839)
ScoresOf(frames, c) == frames[c].sc

\* the frame after lines 835-850
ScoredFrame(q) ==
    [q  |-> q,
     sc |-> ScoreAll(registry, 1, StrLower(q),
                     [scores |-> EmptyDict, matched_patterns |-> EmptyDict])]

\* the frame after lines 853-867
SelectedOn(q, sc, best_score) ==
    [q |-> q, sc |-> sc,
     sel |-> Select(Candidates(registry, sc.scores, best_score), best_score)]

SelectedFrame(q, sc) == SelectedOn(q, sc, BestScore(sc.scores))

\* lines 835-850 of invocation c
Score(c) ==
    /\ pc[c] = "call"
    /\ result' = [result EXCEPT ![c] = ScoredFrame(_clean(user_query[c]))]
    /\ pc' = [pc EXCEPT ![c] = "scored"]
    /\ UNCHANGED <<registry, user_query, error>>

\* lines 853-867 of invocation c
SelectStep(c) ==
    /\ pc[c] = "scored"
    /\ result' = [result EXCEPT ![c] = SelectedFrame(result[c].q, ScoresOf(result, c))]
    /\ pc' = [pc EXCEPT ![c] = "selected"]
    /\ UNCHANGED <<registry, user_query, error>>

\* lines 870-879 of invocation c
CompileAndReturn(c) ==
    /\ pc[c] = "selected"
    /\ \E out \in {CompileSelected(result[c].q, result[c].sc, result[c].sel)} :
           /\ result' = [result EXCEPT ![c] = out.value]
           /\ error' = [error EXCEPT ![c] = out.raised]
    /\ pc' = [pc EXCEPT ![c] = "returned"]
    /\ UNCHANGED <<registry, user_query>>

NextCalls == \E c \in Calls : Score(c) \/ SelectStep(c) \/ CompileAndReturn(c)

SpecCalls == InitCalls /\ [][NextCalls]_vars

\* C18: select_and_compile is stateless: however the invocations are
\* interleaved, the registry stays as it was built and every invocation that
\* has returned holds the record the call returns when it runs alone on its
\* query.
C18_Stateless ==
    /\ registry = ENGINE_REGISTRY
    /\ \A c \in Calls :
           pc[c] = "returned" =>
               /\ result[c] = select_and_compile(user_query[c]).value
               /\ error[c] = select_and_compile(user_query[c]).raised

\* an invocation has returned a compiled filter while another one, on a
\* different query, is between its scoring and its selection
C18_Witness ==
    \E c, d \in Calls :
        /\ pc[c] = "returned"
        /\ pc[d] = "scored"
        /\ user_query[c] # user_query[d]
        /\ result[c].compiled.applied
        /\ result[c].engine_key = "work_hist"
        /\ BestScore(result[d].sc.scores) > 0


(***************************************************************************)
(* The owner and company builders as functions of their value: the call    *)
(* rule.build(val) of line 905 on every value of up to MaxValueLen         *)
(* characters, among them the double quote and the backslash.  result      *)
(* holds the rule's field and val, and the fragment once it is built.      *)
(***************************************************************************)
MaxValueLen == 3

ValueChars == {"a", "h_hong", "\"", "\\"}

RECURSIVE Strings(_, _)
Strings(chars, n) ==
    IF n = 0 THEN {<<>>}
    ELSE LET shorter == Strings(chars, n - 1)
         IN  shorter \cup {Append(v, ch) : v \in shorter, ch \in chars}

FieldValues == Strings(ValueChars, MaxValueLen)

\* the rules of the registry whose value is a string
StringRules == {k \in DOMAIN WorkRules : WorkRules[k].field \in {"owner", "company"}}

InitBuild ==
    /\ registry = ENGINE_REGISTRY
    /\ user_query = <<>>
    /\ \E k \in StringRules, v \in FieldValues : result = [rule |-> WorkRules[k], val |-> v]
    /\ error = "none"
    /\ pc = "build"

\* filters.append(rule.build(val))
BuildFragment ==
    /\ pc = "build"
    /\ result' = [rule     |-> result.rule,
                  val      |-> result.val,
                  fragment |-> CallBuild(result.rule.build, result.val)]
    /\ pc' = "built"
    /\ UNCHANGED <<registry, user_query, error>>

NextBuild == BuildFragment

SpecBuild == InitBuild /\ [][NextBuild]_vars

\* the number of backslashes that end directly before position i
RECURSIVE BackslashesBefore(_, _)
BackslashesBefore(s, i) ==
    IF i > 1 /\ s[i - 1] = "\\" THEN 1 + BackslashesBefore(s, i - 1) ELSE 0

\* the double quotes a reader of escape sequences takes as string delimiters
UnescapedQuotes(s) ==
    {i \in 1..Len(s) : s[i] = "\"" /\ BackslashesBefore(s, i) % 2 = 0}

\* where the template puts its two double quotes: after "<field>: ANY(" and
\* before the closing parenthesis
Delimiters(field, fragment) == {Len(field) + 7, Len(fragment) - 1}

FieldName(field) ==
    IF field = "owner" THEN <<"o", "w", "n", "e", "r">>
    ELSE <<"c", "o", "m", "p", "a", "n", "y">>

Detected(k) == CallDetect(SelectedRules[k].detect, Trimmed)

Skipped(k) == IsNone(Detected(k)) \/ Detected(k).v = <<>>

\* the residual after the strippers of the rules 1..k that detected a value,
\* each applied to the residual of the rules before it
RECURSIVE ResidualAfter(_)
ResidualAfter(k) ==
    IF k = 0 THEN Trimmed
    ELSE IF Skipped(k) \/ IsNone(SelectedRules[k].strip)
         THEN ResidualAfter(k - 1)
         ELSE CallStrip(SelectedRules[k].strip.v, ResidualAfter(k - 1), Detected(k).v)

Occurs(lit, text) == \E i \in 1..Len(text) : LitAt(text, lit, i)

\* what the stripper of rule k removes is present in text
StripTargetIn(k, text) ==
    CASE SelectedRules[k].field = "date" ->
             Detected(k).v.raw # <<>> /\ Occurs(Detected(k).v.raw, text)
      [] SelectedRules[k].field = "owner" ->
             \E i \in 1..Len(text) :
                 LabelledAt(text, i, OwnerKeys[1], OwnerKeys[2], Detected(k).v) # 0
      [] SelectedRules[k].field = "company" ->
             \E i \in 1..Len(text) :
                 LabelledAt(text, i, CompanyKeys[1], CompanyKeys[2], Detected(k).v) # 0

\* C20: the strippers run in the order of the rules on the accumulating
\* residual: the residual is strip_company(strip_owner(strip_date(q)))
\* restricted to the detected fields, query_text is that residual (q when it
\* is empty), a stripper whose target is not in the current residual leaves
\* it unchanged, and none raises.
C20_SequentialStrip ==
    Returned /\ SelectedRules # <<>> =>
        /\ error = "none"
        /\ ResidualAfter(Len(SelectedRules)) = ResidualText
        /\ Compiled.query_text =
               IF ResidualAfter(Len(SelectedRules)) # <<>>
               THEN ResidualAfter(Len(SelectedRules)) ELSE Trimmed
        /\ \A k \in 1..Len(SelectedRules) :
               ~Skipped(k) /\ ~StripTargetIn(k, ResidualAfter(k - 1))
                   => ResidualAfter(k) = ResidualAfter(k - 1)

\* the date stripper has taken the owner's value out of the residual, so the
\* owner stripper finds nothing to remove and the residual stays as it is
C20_Witness ==
    /\ Returned
    /\ SelectedRules # <<>>
    /\ {"date", "owner"} \subseteq MatchedFields
    /\ ~Skipped(1) /\ ~Skipped(2)
    /\ ResidualAfter(1) # Trimmed
    /\ ~StripTargetIn(2, ResidualAfter(1))
    /\ ResidualAfter(2) = ResidualAfter(1)
    /\ Compiled.query_text = ResidualAfter(2)


(***************************************************************************)
(* The scores.                                                             *)
(***************************************************************************)
\* the places in the pattern list of engine n whose pattern matches the
\* lower-cased query, each pattern tested on the whole query by itself
MatchingPlaces(n) ==
    {i \in 1..Len(registry[n].patterns) :
        PatternMatches(registry[n].patterns[i], StrLower(Trimmed))}

\* the patterns at these places, in the engine's pattern order
MatchingPatterns(n) ==
    SelectSeq(registry[n].patterns, LAMBDA p : PatternMatches(p, StrLower(Trimmed)))

\* C21: the score of every engine is the number of its patterns that match
\* the lower-cased query, each counted once; it is the length of the
\* engine's matched_patterns, lies between 0 and the number of its patterns,
\* and matched_patterns lists the matching patterns in pattern order.
C21_ScoreCountsMatches ==
    Returned =>
        \A n \in DOMAIN registry :
            /\ result.scores[registry[n].key] = Cardinality(MatchingPlaces(n))
            /\ result.scores[registry[n].key] = Len(result.matched_patterns[registry[n].key])
            /\ result.scores[registry[n].key] >= 0
            /\ result.scores[registry[n].key] <= Len(registry[n].patterns)
            /\ result.matched_patterns[registry[n].key] = MatchingPatterns(n)

\* a query with an owner label, a year and a month: three patterns of the
\* work-history engine match and all three are counted, listed as in the
\* pattern list
C21_Witness ==
    /\ Returned
    /\ result.scores["work_hist"] = 3
    /\ result.scores["manual"] = 0
    /\ result.matched_patterns["work_hist"]
           = <<Word(<<"h_dam", "h_dang", "h_ja">>), PatYear, PatMonth>>
    /\ "owner" \in MatchedFields


(***************************************************************************)
(* vertex_search: the paging loop.  In this specification user_query holds *)
(* the arguments of the call that enter the loop (page_token, max_pages,   *)
(* max_total_chars, max_total_results) and result holds the locals of the  *)
(* call: results, total_chars, pages_fetched, is_truncated,                *)
(* truncation_reason, next_token, summary_text, summary_citations, with    *)
(* responses, the responses of client.search so far, and value, the dict   *)
(* the call returned.  A result of the backend is its id and the number of *)
(* characters of its snippets and extractive segments (lines 490-504); a   *)
(* response is its results, its next_page_token and its summary.  The      *)
(* backend is free in what it answers, and free to fail.                   *)
(***************************************************************************)
MaxPageResults == 2

PageTokenArgs == {None, Some(<<" ">>), Some(<<"p">>)}

MaxPagesArgs == {0, 1, 2, 3}

MaxTotalCharsArgs == {0, 2, 80000}

MaxTotalResultsArgs == {0, 1, 3, 200}

SearchArgs ==
    [page_token : PageTokenArgs, max_pages : MaxPagesArgs,
     max_total_chars : MaxTotalCharsArgs, max_total_results : MaxTotalResultsArgs]

BackendResults == {[id |-> "a", chars |-> 0], [id |-> "b", chars |-> 1]}

BackendResultLists == UNION {[1..n -> BackendResults] : n \in 0..MaxPageResults}

\* response.summary: absent, or a summary with its text and its citations
BackendSummaries == {None, Some([text |-> "s1", citations |-> "c1"])}

Responses ==
    [results : BackendResultLists, next_page_token : {<<>>, <<"n">>},
     summary : BackendSummaries]

InitSearch ==
    /\ registry = ENGINE_REGISTRY
    /\ user_query \in SearchArgs
    /\ result = NoResult
    /\ error = "none"
    /\ pc = "call"

\* page_token or ""
OrEmpty(token) == IF IsNone(token) THEN <<>> ELSE token.v

\* lines 402-413: the locals before the loop
EnterLoop ==
    /\ pc = "call"
    /\ result' = [results           |-> <<>>,
                  total_chars       |-> 0,
                  pages_fetched     |-> 0,
                  is_truncated      |-> FALSE,
                  truncation_reason |-> None,
                  next_token        |-> Strip(OrEmpty(user_query.page_token)),
                  summary_text      |-> None,
                  summary_citations |-> None,
                  responses         |-> <<>>,
                  value             |-> NoResult]
    /\ pc' = "loop"
    /\ UNCHANGED <<registry, user_query, error>>

\* lines 461-516: the results of one response from the k-th on, until a budget
\* breaks the loop
RECURSIVE ParseResults(_, _, _, _)
ParseResults(items, k, acc, args) ==
    IF k > Len(items) THEN acc
    ELSE LET results     == Append(acc.results, items[k])
             total_chars == acc.total_chars + items[k].chars
         IN  IF Len(results) >= args.max_total_results
             THEN [results |-> results, total_chars |-> total_chars,
                   is_truncated |-> TRUE,
                   truncation_reason |-> Some("max_total_results_reached")]
             ELSE IF total_chars >= args.max_total_chars
             THEN [results |-> results, total_chars |-> total_chars,
                   is_truncated |-> TRUE,
                   truncation_reason |-> Some("max_total_chars_exceeded")]
             ELSE ParseResults(items, k + 1,
                               [results |-> results, total_chars |-> total_chars,
                                is_truncated |-> FALSE, truncation_reason |-> None],
                               args)

\* mutant: the page budget marks truncation although no next page is left
AfterResultsNoTokenCheck(f, parsed, response, args) ==
    [f EXCEPT
       !.results           = parsed.results,
       !.total_chars       = parsed.total_chars,
       !.is_truncated      = parsed.is_truncated \/ f.pages_fetched >= args.max_pages,
       !.truncation_reason = IF parsed.is_truncated THEN parsed.truncation_reason
                             ELSE IF f.pages_fetched >= args.max_pages
                                  THEN Some("max_pages_reached")
                                  ELSE None,
       !.next_token        = IF parsed.is_truncated THEN f.next_token
                             ELSE response.next_page_token]

\* lines 518-529: after the results of a response, whether the loop goes on
AfterResults(f, parsed, response, args) ==
    [f EXCEPT
       !.results           = parsed.results,
       !.total_chars       = parsed.total_chars,
       !.is_truncated      = parsed.is_truncated
                                 \/ (response.next_page_token # <<>>
                                        /\ f.pages_fetched >= args.max_pages),
       !.truncation_reason = IF parsed.is_truncated THEN parsed.truncation_reason
                             ELSE IF response.next_page_token # <<>>
                                        /\ f.pages_fetched >= args.max_pages
                                  THEN Some("max_pages_reached")
                                  ELSE None,
       !.next_token        = IF parsed.is_truncated THEN f.next_token
                             ELSE response.next_page_token]

\* the summary's text, None without a summary
_extract_summary_text(resp) ==
    IF IsNone(resp.summary) THEN None ELSE Some(resp.summary.v.text)

_extract_summary_citations(resp) ==
    IF IsNone(resp.summary) THEN None ELSE Some(resp.summary.v.citations)

\* mutant: the summary is taken from every response, not from the first only
AfterResponseEveryPage(f, response) ==
    [f EXCEPT
       !.pages_fetched     = f.pages_fetched + 1,
       !.summary_text      = _extract_summary_text(response),
       !.summary_citations = _extract_summary_citations(response),
       !.responses         = Append(f.responses, response)]

\* lines 416-458: pages_fetched += 1, the request, the response and the
\* summary of the first response
AfterResponse(f, response) ==
    [f EXCEPT
       !.pages_fetched     = f.pages_fetched + 1,
       !.summary_text      = IF f.pages_fetched = 0 THEN _extract_summary_text(response)
                             ELSE f.summary_text,
       !.summary_citations = IF f.pages_fetched = 0 THEN _extract_summary_citations(response)
                             ELSE f.summary_citations,
       !.responses         = Append(f.responses, response)]

\* one turn of the loop on a response
Turn(f, response, args) ==
    AfterResults(f,
                 ParseResults(response.results, 1,
                              [results |-> f.results, total_chars |-> f.total_chars,
                               is_truncated |-> FALSE, truncation_reason |-> None],
                              args),
                 response, args)

\* the loop is left by one of its three breaks
Breaks(f) == f.is_truncated \/ f.next_token = <<>>

\* lines 415-529: one turn of the while loop, client.search answering
FetchPage ==
    /\ pc = "loop"
    /\ \E response \in Responses :
           \E f \in {Turn(AfterResponse(result, response), response, user_query)} :
               /\ result' = f
               /\ pc' = IF Breaks(f)
                        THEN "done" ELSE "loop"
    /\ UNCHANGED <<registry, user_query, error>>

\* client.search raises (line 453) and the handler of lines 574-581 returns
SearchRaises ==
    /\ pc = "loop"
    /\ result' = [result EXCEPT
                    !.pages_fetched = result.pages_fetched + 1,
                    !.value = [status |-> "error"]]
    /\ error' = "Exception"
    /\ pc' = "returned"
    /\ UNCHANGED <<registry, user_query>>

\* lines 532-572: the dict of a successful search
SearchReturns ==
    /\ pc = "done"
    /\ result' = [result EXCEPT
                    !.value = [status            |-> "success",
                               summary_text      |-> result.summary_text,
                               summary_citations |-> result.summary_citations,
                               results           |-> result.results,
                               count             |-> Len(result.results),
                               pages_fetched     |-> result.pages_fetched,
                               next_page_token   |-> IF result.next_token # <<>>
                                                     THEN Some(result.next_token) ELSE None,
                               is_truncated      |-> result.is_truncated,
                               truncation_reason |-> result.truncation_reason,
                               total_chars_estimate |-> result.total_chars]]
    /\ pc' = "returned"
    /\ UNCHANGED <<registry, user_query, error>>

NextSearch == EnterLoop \/ FetchPage \/ SearchRaises \/ SearchReturns

SpecSearch == InitSearch /\ [][NextSearch]_vars

\* the call goes on while it has a step to take: the backend answers each
\* request or fails it
SpecSearchFair == InitSearch /\ [][NextSearch]_vars /\ WF_vars(NextSearch)


(***************************************************************************)
(* Properties of the paging loop.                                          *)
(***************************************************************************)
SearchSucceeded == pc = "returned" /\ result.value.status = "success"

\* the results of all the responses fetched, in the order received
RECURSIVE AllResults(_)
AllResults(responses) ==
    IF responses = <<>> THEN <<>>
    ELSE AllResults(SubSeq(responses, 1, Len(responses) - 1))
             \o responses[Len(responses)].results

Fetched == AllResults(result.responses)

LastResponse == result.responses[Len(result.responses)]

\* the characters of the first n of the results
RECURSIVE SumChars(_, _)
SumChars(items, n) == IF n = 0 THEN 0 ELSE SumChars(items, n - 1) + items[n].chars

CharsOf(items) == SumChars(items, Len(items))

IsPrefix(s, t) == Len(s) <= Len(t) /\ s = SubSeq(t, 1, Len(s))

\* the budget checks of the loop body did not fire on the first n results
NoBudgetHit(n) ==
    \A j \in 1..n :
        /\ j < user_query.max_total_results
        /\ SumChars(Fetched, j) < user_query.max_total_chars

\* C22: truncation is marked exactly when a budget stopped the collection:
\* is_truncated holds iff truncation_reason is not null, the reason names the
\* budget that stopped the loop, and when the pages run out before any
\* budget is hit nothing is marked and every result fetched is returned.
C22_TruncationMarksBudget ==
    SearchSucceeded =>
        LET v == result.value
            n == Len(v.results)
        IN  /\ v.is_truncated <=> ~IsNone(v.truncation_reason)
            /\ v.count = n
            /\ IsPrefix(v.results, Fetched)
            /\ v.total_chars_estimate = CharsOf(v.results)
            /\ NoBudgetHit(n - 1)
            /\ CASE n > 0 /\ n >= user_query.max_total_results ->
                        v.truncation_reason = Some("max_total_results_reached")
                 [] n > 0 /\ n < user_query.max_total_results
                          /\ CharsOf(v.results) >= user_query.max_total_chars ->
                        v.truncation_reason = Some("max_total_chars_exceeded")
                 [] OTHER ->
                        /\ v.results = Fetched
                        /\ IF LastResponse.next_page_token = <<>>
                           THEN ~v.is_truncated
                           ELSE /\ v.truncation_reason = Some("max_pages_reached")
                                /\ v.pages_fetched >= user_query.max_pages

\* two pages were fetched, the second had no next page token, no budget was
\* hit, and all their results came back unmarked
C22_Witness ==
    /\ SearchSucceeded
    /\ Len(result.responses) = 2
    /\ LastResponse.next_page_token = <<>>
    /\ result.responses[1].results # <<>>
    /\ LastResponse.results # <<>>
    /\ ~result.value.is_truncated
    /\ IsNone(result.value.truncation_reason)
    /\ result.value.results = Fetched


Max(a, b) == IF a >= b THEN a ELSE b

\* the search requests issued so far
Requests == IF pc = "call" THEN 0 ELSE result.pages_fetched

\* the summary of the first response, as text and as citations
FirstSummary == result.responses[1].summary

\* the bounds of the loop: requests, results, and the origin of the summary
PagingBounds ==
    /\ Requests <= Max(1, user_query.max_pages)
    /\ pc # "call" => Len(result.results) <= Max(1, user_query.max_total_results)
    /\ pc \in {"done", "returned"} => Requests >= 1
    /\ SearchSucceeded =>
           /\ result.value.pages_fetched = Len(result.responses)
           /\ result.value.pages_fetched >= 1
           /\ result.value.count <= Max(1, user_query.max_total_results)
           /\ result.value.summary_text =
                  IF IsNone(FirstSummary) THEN None ELSE Some(FirstSummary.v.text)
           /\ result.value.summary_citations =
                  IF IsNone(FirstSummary) THEN None ELSE Some(FirstSummary.v.citations)

\* C23: whatever the backend answers, the paging loop terminates: the call
\* returns, after at least one and at most max(1, max_pages) requests, with
\* at most max(1, max_total_results) results and the summary of the first
\* response only.
C23_PagingTerminates == []PagingBounds /\ <>(pc = "returned")

\* the backend gave a next page token every time and no summary on the first
\* page but one later; the call returned after max_pages = 3 requests, marked
\* by the page budget and without a summary
C23_Witness ==
    /\ SearchSucceeded
    /\ user_query.max_pages = 3
    /\ result.value.pages_fetched = 3
    /\ \A k \in 1..3 : result.responses[k].next_page_token # <<>>
    /\ IsNone(FirstSummary)
    /\ ~IsNone(result.responses[2].summary)
    /\ IsNone(result.value.summary_text)
    /\ result.value.truncation_reason = Some("max_pages_reached")
    /\ result.value.count > 1

====
